---------------------------- MODULE Spec2Model ----------------------------
(***************************************************************************)
(* A model of the ColorLogger class of @typhonjs-utils/logger-color        *)
(* (src/src/ColorLogger.js): the level registry, the options object and    *)
(* the format / output engine.                                             *)
(*                                                                         *)
(* JavaScript values are records [k, s, n]: k is the kind of the value,    *)
(* s its natural text form (String(v)) as a sequence of tokens, so that    *)
(* template literals and joins are sequence concatenation, and n its       *)
(* numeric value when it is a number.                                      *)
(***************************************************************************)
EXTENDS Integers, Sequences, FiniteSets, TLC

VARIABLES
    logLevel,   \* this.#logLevel: a JavaScript value
    heap,       \* the option objects: heap[1] is this.#options, the others
                \* are the objects getOptions handed to the caller
    held,       \* the addresses of the objects the caller holds
    eventbus,   \* this._eventbus: "none" or the kind of bus attached
    bound,      \* the identifiers bound on the event bus by onPluginLoad
    last        \* the observation of the last call: arguments, result,
                \* error raised, sink writes, resolver and serializer calls

vars == <<logLevel, heap, held, eventbus, bound, last>>

(***************************************************************************)
(* JavaScript values                                                       *)
(***************************************************************************)
Undef == [k |-> "undefined", s |-> <<"undefined">>, n |-> 0]
Null == [k |-> "null", s |-> <<"null">>, n |-> 0]
Absent == [k |-> "absent", s |-> <<>>, n |-> 0]
True == [k |-> "boolean", s |-> <<"true">>, n |-> 1]
False == [k |-> "boolean", s |-> <<"false">>, n |-> 0]
Bool(b) == IF b THEN True ELSE False
Str(t) == [k |-> "string", s |-> t, n |-> 0]
Digits == <<"0", "1", "2", "3", "4", "5", "6", "7", "8", "9">>
Num(i) == [k |-> "number", s |-> <<Digits[i + 1]>>, n |-> i]
Func(name) == [k |-> "function", s |-> <<"function ", name, "() { [native code] }">>, n |-> 0]
PlainObject == [k |-> "object", s |-> <<"[object Object]">>, n |-> 0]
\* an array's text form is its elements' text forms joined by ","
ArrayOf(t) == [k |-> "array", s |-> t, n |-> 0]

\* typeof v
TypeOf(v) ==
    CASE v.k = "null" -> "object"
      [] v.k = "array" -> "object"
      [] OTHER -> v.k

\* the truthiness of a value in a condition
Truthy(v) ==
    CASE v.k = "undefined" -> FALSE
      [] v.k = "null" -> FALSE
      [] v.k = "absent" -> FALSE
      [] v.k = "boolean" -> v = True
      [] v.k = "number" -> v.n # 0
      [] v.k = "string" -> v.s # <<>>
      [] OTHER -> TRUE

\* the property key a value is converted to when it indexes an object
ToPropertyKey(v) == v.s

(***************************************************************************)
(* The level registry                                                      *)
(***************************************************************************)
LevelNames == {"off", "fatal", "error", "warn", "info", "verbose", "debug", "trace", "all"}
Severities == {"fatal", "error", "warn", "info", "verbose", "debug", "trace"}

\* the properties every object literal inherits from Object.prototype
ObjectPrototypeKeys == {"toString", "constructor"}

\* ColorLogger.#LOG_LEVELS as a table of own properties
LevelTable ==
    [off |-> 8, fatal |-> 7, error |-> 6, warn |-> 5, info |-> 4,
     verbose |-> 3, debug |-> 2, trace |-> 1, all |-> 0]

\* ColorLogger.#LOG_LEVELS[level]: the own property, else the property
\* inherited from Object.prototype, else undefined
LOG_LEVELS(level) ==
    LET key == ToPropertyKey(level)
    IN IF Len(key) = 1 /\ key[1] \in LevelNames THEN Num(LevelTable[key[1]])
       ELSE IF Len(key) = 1 /\ key[1] \in ObjectPrototypeKeys THEN Func(key[1])
       ELSE Undef

\* the names of the ranks 0..8, as the table of a bug that lists debug and
\* verbose in the order of the colour tables
LevelStringsSwapped == <<"all", "trace", "verbose", "debug", "info", "warn", "error", "fatal", "off">>

LOG_LEVEL_STRINGS_swapped(level) ==
    LET key == ToPropertyKey(level)
    IN IF Len(key) = 1 /\ \E i \in 1..9 : Digits[i] = key[1]
       THEN Str(<<LevelStringsSwapped[(CHOOSE i \in 1..9 : Digits[i] = key[1])]>>)
       ELSE Undef

\* ColorLogger.#LOG_LEVEL_STRINGS as a table of own properties "0".."8"
LevelStrings == <<"all", "trace", "debug", "verbose", "info", "warn", "error", "fatal", "off">>

\* ColorLogger.#LOG_LEVEL_STRINGS[level]: the own property, else the property
\* inherited from Object.prototype, else undefined
LOG_LEVEL_STRINGS(level) ==
    LET key == ToPropertyKey(level)
    IN IF Len(key) = 1 /\ \E i \in 1..9 : Digits[i] = key[1]
       THEN Str(<<LevelStrings[(CHOOSE i \in 1..9 : Digits[i] = key[1])]>>)
       ELSE IF Len(key) = 1 /\ key[1] \in ObjectPrototypeKeys THEN Func(key[1])
       ELSE Undef

IS_LEVEL_ENABLED_swapped(currentLevel, requestedLevel) ==
    /\ currentLevel.k = "number"
    /\ requestedLevel.k = "number"
    /\ requestedLevel.n <= currentLevel.n

IS_LEVEL_ENABLED_strict(currentLevel, requestedLevel) ==
    /\ currentLevel.k = "number"
    /\ requestedLevel.k = "number"
    /\ currentLevel.n < requestedLevel.n

\* ColorLogger.#IS_LEVEL_ENABLED
IS_LEVEL_ENABLED(currentLevel, requestedLevel) ==
    /\ currentLevel.k = "number"
    /\ requestedLevel.k = "number"
    /\ currentLevel.n <= requestedLevel.n

(***************************************************************************)
(* Objects and the options                                                 *)
(*                                                                         *)
(* An object is a function from property names to values, Absent where it  *)
(* has no such property.  An argument is a value together with its         *)
(* properties (all Absent for a value that is no object).                  *)
(***************************************************************************)
BooleanOptions == {"consoleEnabled", "noColor", "showDate", "showInfo", "showLevel"}
OptionKeys == BooleanOptions \cup {"tag"}
\* eventPrepend is read by onPluginLoad only: to setOptions it is an
\* unrecognized property
ObjectKeys == OptionKeys \cup {"eventPrepend"}

EmptyObject == [key \in ObjectKeys |-> Absent]

Arg(v, f) == [v |-> v, f |-> f]
ObjectArg(f) == Arg(PlainObject, f)
ValueArg(v) == Arg(v, EmptyObject)

\* o.key for an object o: undefined when the property is absent
Get(f, key) == IF f[key] = Absent THEN Undef ELSE f[key]

\* the options object of the constructor
DefaultOptions ==
    [key \in ObjectKeys |->
        CASE key = "consoleEnabled" -> True
          [] key = "noColor" -> False
          [] key = "showDate" -> False
          [] key = "showInfo" -> False
          [] key = "showLevel" -> False
          [] key = "tag" -> Undef
          [] OTHER -> Absent]

\* JSON.parse(JSON.stringify(o)) of an object of primitives: a new object
\* with the properties of o, less those that are undefined or functions
JSONRoundTrip(f) ==
    [key \in ObjectKeys |->
        IF f[key].k \in {"undefined", "function", "absent"} THEN Absent ELSE f[key]]

\* the outcome of a call: the error raised ("" when none), the options after
\* it, and the value returned
Outcome(threw, options, ret) == [threw |-> threw, options |-> options, ret |-> ret]

\* one line of setOptions:
\*   if (typeof options.<key> === '<type>') { this.#options.<key> = options.<key>; }
\* reading a property of null raises a TypeError
MergeField(st, arg, key, type) ==
    IF st.threw # "" THEN st
    ELSE IF arg.v.k \in {"null", "undefined"}
    THEN Outcome("TypeError: Cannot read properties of null", st.options, Undef)
    ELSE IF TypeOf(Get(arg.f, key)) = type
    THEN Outcome("", [st.options EXCEPT ![key] = Get(arg.f, key)], Undef)
    ELSE st

setOptions_unchecked(options, given) ==
    LET arg == IF given.v = Undef THEN ObjectArg(EmptyObject) ELSE given
        s0 == Outcome("", options, Undef)
        s1 == MergeField(s0, arg, "consoleEnabled", "boolean")
        s2 == MergeField(s1, arg, "noColor", "boolean")
        s3 == MergeField(s2, arg, "showDate", "boolean")
        s4 == MergeField(s3, arg, "showInfo", "boolean")
        s5 == MergeField(s4, arg, "showLevel", "boolean")
    IN MergeField(s5, arg, "tag", "string")

setOptions_truthy(options, given) ==
    LET arg == IF given.v = Undef THEN ObjectArg(EmptyObject) ELSE given
        Merge(st, key) ==
            IF st.threw # "" THEN st
            ELSE IF arg.v.k \in {"null", "undefined"}
            THEN Outcome("TypeError: Cannot read properties of null", st.options, Undef)
            ELSE IF Truthy(Get(arg.f, key))
            THEN Outcome("", [st.options EXCEPT ![key] = Get(arg.f, key)], Undef)
            ELSE st
    IN IF TypeOf(arg.v) # "object"
       THEN Outcome("TypeError: 'options' is not an 'object'.", options, Undef)
       ELSE Merge(Merge(Merge(Merge(Merge(Merge(Outcome("", options, Undef),
                "consoleEnabled"), "noColor"), "showDate"), "showInfo"), "showLevel"), "tag")

setOptions_strict(options, given) ==
    LET arg == IF given.v = Undef THEN ObjectArg(EmptyObject) ELSE given
        Merge(st, key, type) ==
            IF st.threw # "" THEN st
            ELSE IF arg.v.k \in {"null", "undefined"}
            THEN Outcome("TypeError: Cannot read properties of null", st.options, Undef)
            ELSE IF TypeOf(Get(arg.f, key)) = type
            THEN Outcome("", [st.options EXCEPT ![key] = Get(arg.f, key)], Undef)
            ELSE IF Get(arg.f, key) # Undef
            THEN Outcome("TypeError: option is not of its type.", st.options, Undef)
            ELSE st
    IN IF TypeOf(arg.v) # "object"
       THEN Outcome("TypeError: 'options' is not an 'object'.", options, Undef)
       ELSE Merge(Merge(Merge(Merge(Merge(Merge(Outcome("", options, Undef),
                "consoleEnabled", "boolean"), "noColor", "boolean"), "showDate", "boolean"),
                "showInfo", "boolean"), "showLevel", "boolean"), "tag", "string")

\* setOptions(options = {}) applied to the options object `options`
setOptions(options, given) ==
    LET arg == IF given.v = Undef THEN ObjectArg(EmptyObject) ELSE given
        s0 == Outcome("", options, Undef)
        s1 == MergeField(s0, arg, "consoleEnabled", "boolean")
        s2 == MergeField(s1, arg, "noColor", "boolean")
        s3 == MergeField(s2, arg, "showDate", "boolean")
        s4 == MergeField(s3, arg, "showInfo", "boolean")
        s5 == MergeField(s4, arg, "showLevel", "boolean")
    IN IF TypeOf(arg.v) # "object"
       THEN Outcome("TypeError: 'options' is not an 'object'.", options, Undef)
       ELSE MergeField(s5, arg, "tag", "string")

constructor_verbose(given) ==
    LET arg == IF given.v = Undef THEN ObjectArg(EmptyObject) ELSE given
        set == setOptions(DefaultOptions, arg)
    IN IF TypeOf(arg.v) # "object"
       THEN [threw |-> "TypeError: 'options' is not an object.",
             options |-> DefaultOptions, logLevel |-> Undef]
       ELSE [threw |-> set.threw, options |-> set.options,
             logLevel |-> LOG_LEVELS(Str(<<"verbose">>))]

\* new ColorLogger(options = {}): the error raised, the options and the
\* threshold of the new logger
constructor(given) ==
    LET arg == IF given.v = Undef THEN ObjectArg(EmptyObject) ELSE given
        set == setOptions(DefaultOptions, arg)
    IN IF TypeOf(arg.v) # "object"
       THEN [threw |-> "TypeError: 'options' is not an object.",
             options |-> DefaultOptions, logLevel |-> Undef]
       ELSE [threw |-> set.threw, options |-> set.options,
             logLevel |-> LOG_LEVELS(Str(<<"info">>))]

\* getLogLevel()
getLogLevel(level) == LOG_LEVEL_STRINGS(level)

isValidLevel_untyped(level) == TypeOf(LOG_LEVELS(level)) = "number"

\* isValidLevel(level)
isValidLevel(level) ==
    TypeOf(level) = "string" /\ TypeOf(LOG_LEVELS(level)) = "number"

(***************************************************************************)
(* Messages, stacks and the call-site resolver                             *)
(*                                                                         *)
(* A message is a value with what the engine reads of it: the entries of   *)
(* an object (for JSON.stringify), the message and the stack of an Error.  *)
(* A stack is a sequence of lines and a line a sequence of tokens.         *)
(***************************************************************************)
NoStack == [isString |-> FALSE, lines |-> <<>>]
StackOf(lines) == [isString |-> TRUE, lines |-> lines]

Msg(v, entries, message, stack) ==
    [v |-> v, entries |-> entries, message |-> message, stack |-> stack]
PrimMsg(v) == Msg(v, <<>>, <<>>, NoStack)
TextMsg(t) == PrimMsg(Str(t))
\* an object literal with the given <<key, value text>> entries
ObjectMsg(entries) == Msg(PlainObject, entries, <<>>, NoStack)
\* an object that refers to itself: JSON.stringify raises a TypeError
CircularMsg == Msg([k |-> "circular", s |-> <<"[object Object]">>, n |-> 0], <<>>, <<>>, NoStack)
ErrorMsg(message, stack) ==
    Msg([k |-> "error", s |-> <<"Error: ">> \o message, n |-> 0], <<>>, message, stack)

\* typeof m for a message
TypeOfMsg(m) == IF m.v.k \in {"error", "circular"} THEN "object" ELSE TypeOf(m.v)
\* m instanceof Error
InstanceOfError(m) == m.v.k = "error"

\* the tokens that match /ColorLogger\.js/ and /([\w\d\-_.]*:\d+:\d+)/
SelfTokens == {"ColorLogger.js", "ColorLogger.js:394:30"}
LocatorTokens == {"ColorLogger.js:394:30", "main.js:10:5", "lib.js:3:1"}

\* ColorLogger.#REGEX_COLOR_LOGGER.test(line)
REGEX_COLOR_LOGGER(line) == \E i \in 1..Len(line) : line[i] \in SelfTokens

\* line.match(/([\w\d\-_.]*:\d+:\d+)/): 0 for null, else the place of the
\* leftmost match
MatchLocator(line) ==
    IF \E i \in 1..Len(line) : line[i] \in LocatorTokens
    THEN CHOOSE i \in 1..Len(line) :
            line[i] \in LocatorTokens /\ \A j \in 1..(i - 1) : line[j] \notin LocatorTokens
    ELSE 0

\* parts.join(sep) for parts that are strings
RECURSIVE Join(_, _)
Join(parts, sep) ==
    IF parts = <<>> THEN <<>>
    ELSE IF Len(parts) = 1 THEN parts[1]
    ELSE parts[1] \o sep \o Join(Tail(parts), sep)

RECURSIVE FirstLoop_noSkip(_, _)
FirstLoop_noSkip(lines, cntr) ==
    IF cntr > Len(lines) THEN cntr
    ELSE IF MatchLocator(lines[cntr]) # 0 THEN cntr
    ELSE FirstLoop_noSkip(lines, cntr + 1)

\* the first loop of #PARSE_STACK_TRACE: the value of cntr when it ends,
\* from the line cntr on
RECURSIVE FirstLoop(_, _)
FirstLoop(lines, cntr) ==
    IF cntr > Len(lines) THEN cntr
    ELSE IF REGEX_COLOR_LOGGER(lines[cntr]) THEN FirstLoop(lines, cntr + 1)
    ELSE IF MatchLocator(lines[cntr]) # 0 THEN cntr
    ELSE FirstLoop(lines, cntr + 1)

RECURSIVE SecondLoop_noFilter(_, _)
SecondLoop_noFilter(lines, cntr) ==
    IF cntr > Len(lines) THEN <<>>
    ELSE <<lines[cntr]>> \o SecondLoop_noFilter(lines, cntr + 1)

\* the second loop of #PARSE_STACK_TRACE: the lines pushed to trace, from the
\* line cntr on
RECURSIVE SecondLoop(_, _)
SecondLoop(lines, cntr) ==
    IF cntr > Len(lines) THEN <<>>
    ELSE IF REGEX_COLOR_LOGGER(lines[cntr]) THEN SecondLoop(lines, cntr + 1)
    ELSE <<lines[cntr]>> \o SecondLoop(lines, cntr + 1)

\* ColorLogger.#PARSE_STACK_TRACE(stack), lines being stack.split('\n')
PARSE_STACK_TRACE(lines) ==
    LET cntr == FirstLoop(lines, 1)
        info == IF cntr > Len(lines) THEN <<"no stack trace">>
                ELSE <<lines[cntr][MatchLocator(lines[cntr])]>>
    IN [info |-> info, trace |-> Join(SecondLoop(lines, cntr), <<"\n">>)]

\* what the stack-filter collaborator gives for an error
FilteredInfo == <<"filtered.js:1:1">>
FilteredTrace == <<"filtered trace">>
\* the outcomes of this._eventbus.triggerSync('typhonjs:utils:error:parser:filter')
\* : it returns undefined, returns a parsed error, returns null (reading the
\* result then throws) or throws
CollabOutcomes == {"undefined", "parsed", "null", "throws"}

getTraceInfo_local(error, bus, env) ==
    LET stack == IF InstanceOfError(error) THEN error.stack ELSE env.stack
    IN IF stack.isString
       THEN PARSE_STACK_TRACE(stack.lines)
       ELSE [info |-> <<"no stack trace">>, trace |-> <<>>]

\* #getTraceInfo(error): error is a message; env holds the stack of the Error
\* the method creates and the outcome of the collaborator
getTraceInfo(error, bus, env) ==
    LET stack == IF InstanceOfError(error) THEN error.stack ELSE env.stack
    IN IF stack.isString
       THEN IF bus # "none" /\ env.collab = "parsed"
            THEN [info |-> FilteredInfo, trace |-> FilteredTrace]
            ELSE PARSE_STACK_TRACE(stack.lines)
       ELSE [info |-> <<"no stack trace">>, trace |-> <<>>]

(***************************************************************************)
(* The format / output engine                                              *)
(***************************************************************************)
\* ColorLogger.#LEVEL_TO_COLOR[level]
LEVEL_TO_COLOR(level) ==
    CASE level = "fatal" -> <<"ESC[1;31m">>
      [] level = "error" -> <<"ESC[31m">>
      [] level = "warn" -> <<"ESC[33m">>
      [] level = "info" -> <<"ESC[32m">>
      [] level = "debug" -> <<"ESC[34m">>
      [] level = "verbose" -> <<"ESC[35m">>
      [] level = "trace" -> <<"ESC[1;36m">>

\* ColorLogger.#LEVEL_TO_TYPE[level]
LEVEL_TO_TYPE(level) ==
    CASE level = "fatal" -> <<"[F]">>
      [] level = "error" -> <<"[E]">>
      [] level = "warn" -> <<"[W]">>
      [] level = "info" -> <<"[I]">>
      [] level = "debug" -> <<"[D]">>
      [] level = "verbose" -> <<"[V]">>
      [] level = "trace" -> <<"[T]">>

ResetCode == <<"ESC[0m">>

\* the members of an object or array as JSON.stringify writes them
RECURSIVE Members(_, _, _)
Members(entries, isArray, pretty) ==
    IF entries = <<>> THEN <<>>
    ELSE LET e == entries[1]
             one == IF isArray THEN <<e[2]>>
                    ELSE IF pretty THEN <<"\"", e[1], "\": ", e[2]>>
                    ELSE <<"\"", e[1], "\":", e[2]>>
         IN <<(IF pretty THEN <<"   ">> ELSE <<>>) \o one>> \o Members(Tail(entries), isArray, pretty)

\* JSON.stringify(m) (pretty = FALSE) and JSON.stringify(m, null, 3) (pretty
\* = TRUE) for a message m with typeof m === 'object'
JSONStringify(m, pretty) ==
    LET isArray == m.v.k = "array"
        open == IF isArray THEN <<"[">> ELSE <<"{">>
        close == IF isArray THEN <<"]">> ELSE <<"}">>
    IN IF m.v.k = "null" THEN <<"null">>
       ELSE IF m.entries = <<>> THEN open \o close
       ELSE IF pretty
       THEN open \o <<"\n">> \o Join(Members(m.entries, isArray, TRUE), <<",", "\n">>)
                 \o <<"\n">> \o close
       ELSE open \o Join(Members(m.entries, isArray, FALSE), <<",">>) \o close

\* the text of an element of `text` in text.join('\n'): an element that is
\* undefined or null joins as the empty string
JoinText(e) == IF e.k \in {"undefined", "null"} THEN <<>> ELSE e.s

\* the loop over msg of #output: the elements pushed to `text`, the number of
\* JSON.stringify calls and of #getTraceInfo calls, and the error raised
RECURSIVE MessageLoop(_, _, _, _, _)
MessageLoop(msg, compact, bus, env, acc) ==
    IF msg = <<>> \/ acc.threw # "" THEN acc
    ELSE LET m == msg[1]
             next ==
                IF TypeOfMsg(m) = "object" /\ ~InstanceOfError(m)
                THEN IF m.v.k = "circular"
                     THEN [acc EXCEPT !.serials = @ + 1,
                                      !.threw = "TypeError: Converting circular structure to JSON"]
                     ELSE [acc EXCEPT !.serials = @ + 1,
                                      !.text = Append(@, Str(JSONStringify(m, ~compact)))]
                ELSE IF InstanceOfError(m)
                THEN [acc EXCEPT !.resolves = @ + 1,
                                 !.text = Append(@, Str(m.message \o <<"\n">>
                                                \o getTraceInfo(m, bus, env).trace))]
                ELSE [acc EXCEPT !.text = Append(@, m.v)]
         IN MessageLoop(Tail(msg), compact, bus, env, next)

\* new Date() as the engine reads it
Pad2(i) == IF i < 10 THEN <<"0", Digits[i + 1]>> ELSE <<Digits[(i \div 10) + 1], Digits[(i % 10) + 1]>>

RECURSIVE Decimal(_)
Decimal(i) == IF i < 10 THEN <<Digits[i + 1]>> ELSE Decimal(i \div 10) \o <<Digits[(i % 10) + 1]>>

\* the timestamp of #output; d.month is d.getMonth(), from 0
Timestamp(d) ==
    <<"[">> \o Decimal(d.year) \o <<"-">> \o Pad2(d.month + 1) \o <<"-">> \o Pad2(d.date)
        \o <<"T">> \o Pad2(d.hours) \o <<":">> \o Pad2(d.minutes) \o <<":">> \o Pad2(d.seconds)
        \o <<".">> \o Decimal(d.ms) \o <<"Z] ">>

NoOutput ==
    [rendered |-> FALSE, threw |-> "", ret |-> Undef, writes |-> <<>>, serials |-> 0,
     resolves |-> 0, siteResolves |-> 0,
     color |-> <<>>, tag |-> <<>>, levelTag |-> <<>>, now |-> <<>>, info |-> <<>>,
     body |-> <<>>, trace |-> <<>>]

Assemble_levelFirst(color, tag, levelTag, now, info, body, trace) ==
    color \o levelTag \o tag \o now \o info \o body \o trace \o ResetCode

\* the template literal of #output:
\*   `${color}${tag}${levelTag}${now}${info}${text.join('\n')}${trace}[0m`
Assemble(color, tag, levelTag, now, info, body, trace) ==
    color \o tag \o levelTag \o now \o info \o body \o trace \o ResetCode

SiteResolves_noReuse(showInfo, isTrace) ==
    (IF showInfo THEN 1 ELSE 0) + (IF isTrace THEN 1 ELSE 0)

\* the calls this.#getTraceInfo(void 0) of #output: one for showInfo, and one
\* for isTrace when traceResult is still undefined
SiteResolves(showInfo, isTrace) ==
    (IF showInfo THEN 1 ELSE 0) + (IF isTrace /\ ~showInfo THEN 1 ELSE 0)

TagPrefix_anyString(raw, tagOption) ==
    IF ~raw /\ TypeOf(tagOption) = "string"
    THEN <<"[">> \o tagOption.s \o <<"] ">> ELSE <<>>

\* the tag of #output:
\*   if (typeof this.#options.tag === 'string' && this.#options.tag !== '')
\*   { tag = `[${this.#options.tag}] `; }                     (inside if (!raw))
TagPrefix(raw, tagOption) ==
    IF ~raw /\ TypeOf(tagOption) = "string" /\ tagOption.s # <<>>
    THEN <<"[">> \o tagOption.s \o <<"] ">> ELSE <<>>

TraceSuffix_unwrapped(isTrace, traceResult) ==
    IF isTrace THEN traceResult.trace ELSE <<>>

\* the trace of #output: if (isTrace) { trace = `\n${traceResult.trace}\n`; }
TraceSuffix(isTrace, traceResult) ==
    IF isTrace THEN <<"\n">> \o traceResult.trace \o <<"\n">> ELSE <<>>

SinkWrite_logAlways(consoleEnabled, raw, msg, log) ==
    IF Truthy(consoleEnabled) THEN <<<<TextMsg(log)>>>> ELSE <<>>

SinkWrite_unconditional(consoleEnabled, raw, msg, log) ==
    IF raw THEN <<msg>> ELSE <<<<TextMsg(log)>>>>

\* the end of #output: the console.log calls of a rendered call, each the
\* sequence of its arguments
SinkWrite(consoleEnabled, raw, msg, log) ==
    IF Truthy(consoleEnabled)
    THEN IF raw THEN <<msg>> ELSE <<<<TextMsg(log)>>>>
    ELSE <<>>

\* #output(level, compact, nocolor, raw, time, ...msg) with this.#logLevel =
\* current, this.#options = options and this._eventbus = bus
output(current, options, bus, level, compact, nocolor, raw, time, msg, env) ==
    IF ~IS_LEVEL_ENABLED(current, LOG_LEVELS(Str(<<level>>))) THEN NoOutput
    ELSE
    LET loop == IF raw THEN [text |-> <<>>, serials |-> 0, resolves |-> 0, threw |-> ""]
                ELSE MessageLoop(msg, compact, bus, env,
                                 [text |-> <<>>, serials |-> 0, resolves |-> 0, threw |-> ""])
        isTrace == level = "trace"
        color == IF Truthy(Get(options, "noColor")) \/ nocolor THEN <<>> ELSE LEVEL_TO_COLOR(level)
        showInfo == Truthy(Get(options, "showInfo")) /\ ~raw
        \* the calls #getTraceInfo(void 0): one for the call site, and one for
        \* the trace when traceResult is still undefined
        siteResolves == SiteResolves(showInfo, isTrace)
        traceResult == getTraceInfo(PrimMsg(Undef), bus, env)
        info == IF showInfo THEN <<"[">> \o traceResult.info \o <<"] ">> ELSE <<>>
        trace == TraceSuffix(isTrace, traceResult)
        now == IF time \/ (Truthy(Get(options, "showDate")) /\ ~raw)
               THEN Timestamp(env.date) ELSE <<>>
        tagOption == Get(options, "tag")
        tag == TagPrefix(raw, tagOption)
        levelTag == IF ~raw /\ Truthy(Get(options, "showLevel"))
                    THEN LEVEL_TO_TYPE(level) \o <<" ">> ELSE <<>>
        body == Join([i \in 1..Len(loop.text) |-> JoinText(loop.text[i])], <<"\n">>)
        log == Assemble(color, tag, levelTag, now, info, body, trace)
    IN IF loop.threw # ""
       THEN [NoOutput EXCEPT !.threw = loop.threw, !.serials = loop.serials,
                             !.resolves = loop.resolves]
       ELSE [rendered |-> TRUE, threw |-> "", ret |-> Str(log),
             writes |-> SinkWrite(Get(options, "consoleEnabled"), raw, msg, log),
             serials |-> loop.serials,
             resolves |-> loop.resolves + siteResolves,
             siteResolves |-> siteResolves,
             color |-> color, tag |-> tag, levelTag |-> levelTag, now |-> now,
             info |-> info, body |-> body, trace |-> trace]

(***************************************************************************)
(* The operations on a logger                                              *)
(***************************************************************************)
\* the variants of a logging method: <<compact, nocolor, raw, time>> as the
\* method and the entries of `ext` pass them to #output
Variants == {"normal", "Compact", "NoColor", "Raw", "Time"}
VariantFlags_timeDropped(variant) ==
    CASE variant = "normal" -> [compact |-> FALSE, nocolor |-> FALSE, raw |-> FALSE, time |-> FALSE]
      [] variant = "Compact" -> [compact |-> TRUE, nocolor |-> FALSE, raw |-> FALSE, time |-> FALSE]
      [] variant = "NoColor" -> [compact |-> FALSE, nocolor |-> TRUE, raw |-> FALSE, time |-> FALSE]
      [] variant = "Raw" -> [compact |-> FALSE, nocolor |-> TRUE, raw |-> TRUE, time |-> FALSE]
      [] variant = "Time" -> [compact |-> FALSE, nocolor |-> FALSE, raw |-> FALSE, time |-> FALSE]

VariantFlags(variant) ==
    CASE variant = "normal" -> [compact |-> FALSE, nocolor |-> FALSE, raw |-> FALSE, time |-> FALSE]
      [] variant = "Compact" -> [compact |-> TRUE, nocolor |-> FALSE, raw |-> FALSE, time |-> FALSE]
      [] variant = "NoColor" -> [compact |-> FALSE, nocolor |-> TRUE, raw |-> FALSE, time |-> FALSE]
      [] variant = "Raw" -> [compact |-> FALSE, nocolor |-> TRUE, raw |-> TRUE, time |-> FALSE]
      [] variant = "Time" -> [compact |-> FALSE, nocolor |-> FALSE, raw |-> FALSE, time |-> TRUE]

\* the environment of a call: the stack of an Error created in it, the
\* outcome of the stack-filter collaborator and the value of new Date()
Env(stack, collab, date) == [stack |-> stack, collab |-> collab, date |-> date]
NoEnv ==
    Env(NoStack, "undefined",
        [year |-> 0, month |-> 0, date |-> 0, hours |-> 0, minutes |-> 0, seconds |-> 0, ms |-> 0])

\* the observation of a call
Call(op, arg, opt, level, variant, msg, out) ==
    [op |-> op, arg |-> arg, opt |-> opt, level |-> level, variant |-> variant,
     msg |-> msg, env |-> NoEnv, id |-> <<>>, out |-> out]
NoArg == ValueArg(Undef)
Returned(v) == [NoOutput EXCEPT !.ret = v]
Raised(e) == [NoOutput EXCEPT !.threw = e]
Ref(a) == [k |-> "ref", s |-> <<>>, n |-> a]

\* the options of the logger
options == heap[1]

\* no identifier is bound: `bound` is the set of the prefixes under which
\* onPluginLoad bound the identifiers of the binding table
NoBinding == {}

\* the state a successful constructor leaves
Constructed(c) ==
    /\ logLevel = c.logLevel
    /\ heap = <<c.options>>
    /\ held = <<>>
    /\ eventbus = "none"
    /\ bound = NoBinding

\* const logger = new ColorLogger(): the instance of the plugin module
Init ==
    /\ Constructed(constructor(NoArg))
    /\ last = Call("constructor", Undef, NoArg, "", "", <<>>, Returned(Undef))

\* new ColorLogger(given): the new logger takes the place of the old one,
\* unless the constructor raises
Construct(given) ==
    LET c == constructor(given)
    IN /\ IF c.threw = ""
          THEN /\ logLevel' = c.logLevel
               /\ heap' = <<c.options>>
               /\ held' = <<>>
               /\ eventbus' = "none"
               /\ bound' = NoBinding
          ELSE UNCHANGED <<logLevel, heap, held, eventbus, bound>>
       /\ last' = Call("constructor", Undef, given, "", "", <<>>,
                       IF c.threw = "" THEN Returned(Undef) ELSE Raised(c.threw))

\* fatal(...msg) .. trace(...msg) and the entries of ext
Log(level, variant, msg, env) ==
    LET f == VariantFlags(variant)
        out == output(logLevel, options, eventbus, level, f.compact, f.nocolor, f.raw,
                      f.time, msg, env)
    IN /\ last' = [Call("log", Undef, NoArg, level, variant, msg, out) EXCEPT !.env = env]
       /\ UNCHANGED <<logLevel, heap, held, eventbus, bound>>

\* the line console.log writes for a template literal `<text>${level}`
Diagnostic(text, level) == <<TextMsg(<<text>> \o level.s)>>

setLogLevel_assignFirst(current, level) ==
    LET requestedLevel == LOG_LEVELS(level)
    IN IF requestedLevel.k \in {"undefined", "null"}
       THEN [logLevel |-> requestedLevel, ret |-> False,
             writes |-> <<Diagnostic("@typhonjs-utils/logger-color - setLogLevel - unknown log level: ",
                                     level)>>]
       ELSE [logLevel |-> requestedLevel, ret |-> True, writes |-> <<>>]

\* setLogLevel(level): the threshold after the call, the value returned and
\* the sink writes
setLogLevel(current, level) ==
    LET requestedLevel == LOG_LEVELS(level)
    IN IF requestedLevel.k \in {"undefined", "null"}
       THEN [logLevel |-> current, ret |-> False,
             writes |-> <<Diagnostic("@typhonjs-utils/logger-color - setLogLevel - unknown log level: ",
                                     level)>>]
       ELSE [logLevel |-> requestedLevel, ret |-> True, writes |-> <<>>]

SetLogLevel(level) ==
    LET r == setLogLevel(logLevel, level)
    IN /\ logLevel' = r.logLevel
       /\ last' = Call("setLogLevel", level, NoArg, "", "", <<>>,
                       [NoOutput EXCEPT !.ret = r.ret, !.writes = r.writes])
       /\ UNCHANGED <<heap, held, eventbus, bound>>

\* isLevelEnabled(level): the value returned and the sink writes
isLevelEnabled(current, level) ==
    LET requestedLevel == LOG_LEVELS(level)
    IN IF requestedLevel.k \in {"undefined", "null"}
       THEN [ret |-> False,
             writes |-> <<Diagnostic("isLevelEnabled - unknown log level: ", level)>>]
       ELSE [ret |-> Bool(IS_LEVEL_ENABLED(current, requestedLevel)), writes |-> <<>>]

IsLevelEnabled(level) ==
    LET r == isLevelEnabled(logLevel, level)
    IN /\ last' = Call("isLevelEnabled", level, NoArg, "", "", <<>>,
                       [NoOutput EXCEPT !.ret = r.ret, !.writes = r.writes])
       /\ UNCHANGED <<logLevel, heap, held, eventbus, bound>>

IsValidLevel(level) ==
    /\ last' = Call("isValidLevel", level, NoArg, "", "", <<>>, Returned(Bool(isValidLevel(level))))
    /\ UNCHANGED <<logLevel, heap, held, eventbus, bound>>

GetLogLevel ==
    /\ last' = Call("getLogLevel", Undef, NoArg, "", "", <<>>, Returned(getLogLevel(logLevel)))
    /\ UNCHANGED <<logLevel, heap, held, eventbus, bound>>

SetOptions(given) ==
    LET r == setOptions(options, given)
    IN /\ heap' = [heap EXCEPT ![1] = r.options]
       /\ last' = Call("setOptions", Undef, given, "", "", <<>>,
                       IF r.threw = "" THEN Returned(Undef) ELSE Raised(r.threw))
       /\ UNCHANGED <<logLevel, held, eventbus, bound>>

getOptions_alias(h) == [heap |-> h, ref |-> 1]

getOptions_defaults(h) == [heap |-> Append(h, JSONRoundTrip(DefaultOptions)), ref |-> Len(h) + 1]

\* getOptions(): the heap after JSON.parse allocated the copy, and the address
\* of the copy
getOptions(h) == [heap |-> Append(h, JSONRoundTrip(h[1])), ref |-> Len(h) + 1]

\* logger.setOptions(logger.getOptions()): the object getOptions returns is
\* passed on to setOptions and no reference to it is kept
SetOptionsOfGetOptions ==
    LET g == getOptions(heap)
        copy == g.heap[g.ref]
        r == setOptions(options, ObjectArg(copy))
    IN /\ heap' = [heap EXCEPT ![1] = r.options]
       /\ last' = Call("setOptions(getOptions())", Undef, ObjectArg(copy), "", "", <<>>,
                       IF r.threw = "" THEN Returned(Undef) ELSE Raised(r.threw))
       /\ UNCHANGED <<logLevel, held, eventbus, bound>>

\* the caller holds at most MaxCopies objects that getOptions returned
MaxCopies == 2

GetOptions ==
    LET r == getOptions(heap)
    IN /\ Len(held) < MaxCopies
       /\ heap' = r.heap
       /\ held' = Append(held, r.ref)
       /\ last' = Call("getOptions", Undef, NoArg, "", "", <<>>, Returned(Ref(r.ref)))
       /\ UNCHANGED <<logLevel, eventbus, bound>>

\* the caller assigns to a property of the i-th object it holds
MutateCopy(i, key, v) ==
    /\ i \in 1..Len(held)
    /\ heap' = [heap EXCEPT ![held[i]][key] = v]
    /\ last' = Call("mutateCopy", Ref(held[i]), ValueArg(v), key, "", <<>>, Returned(Undef))
    /\ UNCHANGED <<logLevel, held, eventbus, bound>>

\* the caller drops the object it got last; the object is freed when no
\* other reference to it is left
ReleaseCopy ==
    /\ held # <<>>
    /\ LET a == held[Len(held)]
           rest == SubSeq(held, 1, Len(held) - 1)
       IN /\ held' = rest
          /\ heap' = IF a = Len(heap) /\ a # 1 /\ \A j \in 1..Len(rest) : rest[j] # a
                     THEN SubSeq(heap, 1, Len(heap) - 1) ELSE heap
    /\ last' = Call("releaseCopy", Undef, NoArg, "", "", <<>>, Returned(Undef))
    /\ UNCHANGED <<logLevel, eventbus, bound>>

\* onPluginLoad(ev) with ev.eventbus an event bus and ev.pluginOptions = given
OnPluginLoad(given) ==
    LET r == IF TypeOf(given.v) = "object" THEN setOptions(options, given)
             ELSE Outcome("", options, Undef)
        eventPrepend == IF TypeOf(given.v) = "object" /\ TypeOf(Get(given.f, "eventPrepend")) = "string"
                        THEN Get(given.f, "eventPrepend").s \o <<":">> ELSE <<>>
    IN /\ eventbus' = "bus"
       /\ heap' = [heap EXCEPT ![1] = r.options]
       /\ bound' = IF r.threw = "" THEN bound \cup {eventPrepend} ELSE bound
       /\ last' = Call("onPluginLoad", Undef, given, "", "", <<>>,
                       IF r.threw = "" THEN Returned(Undef) ELSE Raised(r.threw))
       /\ UNCHANGED <<logLevel, held>>

\* the plugin manager loads the logger: it calls onPluginLoad once
LoadPlugin(given) == eventbus = "none" /\ OnPluginLoad(given)

\* the public methods of the class, and this.<name> as onPluginLoad reads it:
\* a method of the logger, or undefined
MethodNames ==
    Severities \cup {"getLogLevel", "getOptions", "isLevelEnabled", "isValidLevel",
                     "setLogLevel", "setOptions", "onPluginLoad"}
Handler(op, level, variant) == [op |-> op, level |-> level, variant |-> variant]
Method(name) ==
    IF name \in Severities THEN Handler("log", name, "normal")
    ELSE IF name \in MethodNames THEN Handler(name, "", "")
    ELSE Handler("undefined", "", "")
\* this.ext.<severity><Variant>
ExtMethod(level, variant) == Handler("log", level, variant)

\* logger.is.<severity>: the class has no member `is`, so logger.is is
\* undefined and reading a property of it raises a TypeError
ReadIs(level) ==
    /\ last' = Call("is", Undef, NoArg, level, "", <<>>,
                    IF Method("is").op = "undefined"
                    THEN Raised("TypeError: Cannot read properties of undefined")
                    ELSE Returned(Undef))
    /\ UNCHANGED <<logLevel, heap, held, eventbus, bound>>

\* the bindings of onPluginLoad: the identifier after the prefix and the
\* callback passed to this._eventbus.on
Binding(suffix, handler) == [suffix |-> suffix, handler |-> handler]
BindingTable ==
    {Binding(<<"log:", level>>, Method(level)) : level \in Severities}
        \cup {Binding(<<"log:", level, ":compact">>, ExtMethod(level, "Compact")) : level \in Severities}
        \cup {Binding(<<"log:", level, ":nocolor">>, ExtMethod(level, "NoColor")) : level \in Severities}
        \cup {Binding(<<"log:", level, ":raw">>, ExtMethod(level, "Raw")) : level \in Severities}
        \cup {Binding(<<"log:", level, ":time">>, ExtMethod(level, "Time")) : level \in Severities}
        \cup {Binding(<<"log:level:get">>, Method("getLogLevel")),
              Binding(<<"log:level:is:enabled">>, Method("isLevelEnabled")),
              Binding(<<"log:level:is:valid">>, Method("isValidLogLevel")),
              Binding(<<"log:level:set">>, Method("setLogLevel")),
              Binding(<<"log:options:get">>, Method("getOptions")),
              Binding(<<"log:options:set">>, Method("setOptions"))}

\* the callbacks registered on the event bus: eventbus.on(name, callback,
\* context) registers nothing for a callback that is undefined
Registrations ==
    {[id |-> prefix \o b.suffix, handler |-> b.handler] :
        prefix \in bound, b \in {t \in BindingTable : t.handler.op # "undefined"}}

\* the callback registered for an identifier, if any
Registered(id) ==
    LET regs == {r \in Registrations : r.id = id}
    IN IF regs = {} THEN Handler("none", "", "") ELSE (CHOOSE r \in regs : TRUE).handler

\* a registered callback invoked with one argument, on the logger as
\* context: the state after it and the observation of the call
Dispatch(h, arg, env) ==
    LET same == [logLevel |-> logLevel, heap |-> heap, held |-> held, msg |-> <<>>,
                 out |-> Returned(Undef)]
    IN CASE h.op = "log" ->
              LET f == VariantFlags(h.variant)
              IN [same EXCEPT !.msg = <<PrimMsg(arg.v)>>,
                              !.out = output(logLevel, options, eventbus, h.level, f.compact,
                                             f.nocolor, f.raw, f.time, <<PrimMsg(arg.v)>>, env)]
         [] h.op = "getLogLevel" -> [same EXCEPT !.out = Returned(getLogLevel(logLevel))]
         [] h.op = "isLevelEnabled" ->
              LET r == isLevelEnabled(logLevel, arg.v)
              IN [same EXCEPT !.out = [NoOutput EXCEPT !.ret = r.ret, !.writes = r.writes]]
         [] h.op = "isValidLevel" -> [same EXCEPT !.out = Returned(Bool(isValidLevel(arg.v)))]
         [] h.op = "setLogLevel" ->
              LET r == setLogLevel(logLevel, arg.v)
              IN [same EXCEPT !.logLevel = r.logLevel,
                              !.out = [NoOutput EXCEPT !.ret = r.ret, !.writes = r.writes]]
         [] h.op = "getOptions" ->
              LET r == getOptions(heap)
              IN [same EXCEPT !.heap = r.heap, !.held = Append(held, r.ref),
                              !.out = Returned(Ref(r.ref))]
         [] h.op = "setOptions" ->
              LET r == setOptions(options, arg)
              IN [same EXCEPT !.heap = [heap EXCEPT ![1] = r.options],
                              !.out = IF r.threw = "" THEN Returned(Undef) ELSE Raised(r.threw)]
         [] OTHER -> same

\* eventbus.triggerSync(id, arg): the callback registered for id is invoked;
\* with no callback registered nothing happens and undefined is returned
Trigger(id, arg, env) ==
    /\ eventbus # "none"
    /\ \E h \in {Registered(id)} :
          /\ h.op = "getOptions" => Len(held) < MaxCopies
          /\ \E d \in {Dispatch(h, arg, env)} :
                /\ logLevel' = d.logLevel
                /\ heap' = d.heap
                /\ held' = d.held
                /\ last' = [Call(h.op, arg.v, arg, h.level, h.variant, d.msg, d.out)
                              EXCEPT !.env = env, !.id = id]
    /\ UNCHANGED <<eventbus, bound>>

(***************************************************************************)
(* The inputs and the specifications                                       *)
(***************************************************************************)
Name(t) == Str(<<t>>)

\* the arguments of setLogLevel, isLevelEnabled and isValidLevel
LevelArgs ==
    {Name(t) : t \in LevelNames}
        \cup {Name("random"), Name("toString"), Name("constructor"), Str(<<>>), Num(2),
              PlainObject, ArrayOf(<<"warn">>), ArrayOf(<<>>), Null, Undef, True}

\* a few of them
FewLevelArgs == {Name("warn"), Name("trace"), Name("off"), Name("toString"), Name("random")}

\* an object with the given properties
Object1(k1, v1) == ObjectArg([EmptyObject EXCEPT ![k1] = v1])
Object2(k1, v1, k2, v2) == ObjectArg([EmptyObject EXCEPT ![k1] = v1, ![k2] = v2])

\* values that are no object
NonObjectArgs ==
    {ValueArg(Num(5)), ValueArg(Name("options")), ValueArg(True), ValueArg(Func("f")),
     ValueArg(Null)}

\* arguments of setOptions and of the constructor
FewOptionArgs ==
    NonObjectArgs
        \cup {NoArg, ObjectArg(EmptyObject), ValueArg(ArrayOf(<<>>)),
              Object2("consoleEnabled", False, "noColor", True),
              Object2("consoleEnabled", True, "noColor", False),
              Object2("showInfo", True, "tag", Name("T")),
              Object2("showInfo", False, "showLevel", Name("yes"))}

\* the plugin options of onPluginLoad
PluginOptionArgs ==
    {NoArg, ValueArg(Null), ValueArg(Num(5)),
     Object2("eventPrepend", Name("p"), "consoleEnabled", False)}

\* the stack of the Error #getTraceInfo creates, as V8 writes it
CallerStack ==
    StackOf(<<
        <<"Error">>,
        <<"    at #getTraceInfo (", "ColorLogger.js", ":278:21)">>,
        <<"    at #output (", "ColorLogger.js:394:30", ")">>,
        <<"    at main (", "main.js:10:5", ")">>,
        <<"    at run (", "lib.js:3:1", ")">> >>)

ADate == [year |-> 2024, month |-> 0, date |-> 9, hours |-> 13, minutes |-> 5, seconds |-> 0, ms |-> 7]

AnEnv == Env(CallerStack, "parsed", ADate)

AText == <<TextMsg(<<"A warning!">>)>>
FewMsgs ==
    {AText, <<ObjectMsg(<<<<"a", "1">>>>), ErrorMsg(<<"failed">>, CallerStack)>>,
     <<TextMsg(<<"before">>), CircularMsg>>}

\* every operation of a logger, on a few arguments each
Next ==
    \/ \E level \in Severities, variant \in Variants : Log(level, variant, AText, AnEnv)
    \/ \E level \in FewLevelArgs : SetLogLevel(level)
    \/ \E level \in FewLevelArgs : IsLevelEnabled(level)
    \/ \E level \in FewLevelArgs : IsValidLevel(level)
    \/ GetLogLevel
    \/ \E given \in FewOptionArgs : SetOptions(given)
    \/ \E given \in FewOptionArgs : Construct(given)
    \/ \E given \in PluginOptionArgs : LoadPlugin(given)

Spec == Init /\ [][Next]_vars

\* the level registry and the threshold gate: every level argument, every
\* severity and variant, under the options of the constructor
NextLevels ==
    \/ \E level \in Severities, variant \in Variants, msg \in FewMsgs :
            Log(level, variant, msg, AnEnv)
    \/ \E level \in LevelArgs : SetLogLevel(level)
    \/ \E level \in LevelArgs : IsLevelEnabled(level)
    \/ \E level \in LevelArgs : IsValidLevel(level)
    \/ GetLogLevel
    \/ \E level \in Severities : ReadIs(level)

SpecLevels == Init /\ [][NextLevels]_vars

\* the merge of setOptions: for each option an object that holds it with the
\* right type, with another type, and several at once; an object that holds
\* an unrecognized property; an array; and values that are no object
Object6(ce, nc, sd, si, sl, tag) ==
    ObjectArg([EmptyObject EXCEPT !["consoleEnabled"] = ce, !["noColor"] = nc,
                                  !["showDate"] = sd, !["showInfo"] = si,
                                  !["showLevel"] = sl, !["tag"] = tag])
OptionArgs ==
    {Object1(key, v) : key \in BooleanOptions, v \in {True, False, Name("yes"), Null}}
        \cup {Object1("tag", v) : v \in {Name("T"), Str(<<>>), Num(1), True}}
        \cup {Object1("eventPrepend", Name("p")),
              Object2("noColor", True, "showLevel", Name("yes")),
              Object2("tag", Name("T"), "eventPrepend", Name("p")),
              Object6(False, True, True, True, True, Name("T")),
              Object6(True, False, False, False, False, Str(<<>>)),
              Object6(Num(1), Name("yes"), Null, Undef, Func("f"), False),
              ObjectArg(EmptyObject), ValueArg(ArrayOf(<<>>)), NoArg}
        \cup NonObjectArgs

NextOptions ==
    \/ \E given \in OptionArgs : SetOptions(given)
    \/ \E given \in OptionArgs : Construct(given)
    \/ SetOptionsOfGetOptions

SpecOptions == Init /\ [][NextOptions]_vars

\* what the caller assigns to the properties of an object it holds
Mutations == {<<"consoleEnabled", False>>, <<"tag", Name("M")>>}

\* the copies of the options in the hands of the caller
NextCopies ==
    \/ GetOptions
    \/ \E i \in 1..MaxCopies, m \in Mutations : MutateCopy(i, m[1], m[2])
    \/ ReleaseCopy
    \/ \E given \in {Object2("consoleEnabled", False, "noColor", True),
                     Object2("consoleEnabled", True, "noColor", False),
                     Object2("showInfo", True, "tag", Name("T"))} : SetOptions(given)

SpecCopies == Init /\ [][NextCopies]_vars

\* the format / output engine: every severity and variant on a text, an
\* object and an Error, under every combination of the options, at the
\* threshold of the constructor and at `all`, with and without an event bus
AnErrorStack ==
    StackOf(<< <<"Error: failed">>, <<"    at thrower (", "lib.js:3:1", ")">> >>)
RenderMsgs ==
    <<TextMsg(<<"A warning!">>), ObjectMsg(<<<<"a", "1">>>>), ErrorMsg(<<"failed">>, AnErrorStack)>>
RenderOptionArgs ==
    {Object1(key, v) : key \in BooleanOptions, v \in {True, False}}
        \cup {Object1("tag", Name("T")), Object1("tag", Str(<<>>))}

NextRender ==
    \/ \E level \in Severities, variant \in Variants : Log(level, variant, RenderMsgs, AnEnv)
    \/ \E given \in RenderOptionArgs : SetOptions(given)
    \/ SetLogLevel(Name("all"))
    \/ LoadPlugin(NoArg)

SpecRender == Init /\ [][NextRender]_vars

\* the plugin wiring: the logger loaded with and without an event prefix, and
\* every identifier of the binding table, with and without the prefix,
\* triggered with a level name
PluginPrefixes == {<<>>, <<"p", ":">>}
TriggerIds == {prefix \o b.suffix : prefix \in PluginPrefixes, b \in BindingTable}

NextPlugin ==
    \/ \E given \in {NoArg, Object1("eventPrepend", Name("p"))} : LoadPlugin(given)
    \/ \E id \in TriggerIds : Trigger(id, ValueArg(Name("warn")), AnEnv)
    \/ Trigger(<<"log:options:set">>, Object1("noColor", True), AnEnv)
    \/ \E level \in {Name("warn"), Name("info")} : IsValidLevel(level)

SpecPlugin == Init /\ [][NextPlugin]_vars

\* the call-site resolver: calls that read the locator or the trace, from two
\* call sites, under every outcome of the stack-filter collaborator, with
\* and without an event bus, and with none, one and two Errors as messages
OtherStack ==
    StackOf(<<
        <<"Error">>,
        <<"    at #output (", "ColorLogger.js:394:30", ")">>,
        <<"    at run (", "lib.js:3:1", ")">> >>)
ResolveEnvs == {Env(stack, collab, ADate) : stack \in {CallerStack, OtherStack}, collab \in CollabOutcomes}
ResolveMsgs ==
    {AText, RenderMsgs,
     <<ErrorMsg(<<"failed">>, AnErrorStack), ErrorMsg(<<"again">>, CallerStack)>>}

NextResolve ==
    \/ \E level \in {"info", "trace"}, variant \in {"normal", "Raw"}, msg \in ResolveMsgs,
          env \in ResolveEnvs : Log(level, variant, msg, env)
    \/ \E given \in {Object1("showInfo", True), Object1("showInfo", False)} : SetOptions(given)
    \/ SetLogLevel(Name("trace"))
    \/ LoadPlugin(NoArg)

SpecResolve == Init /\ [][NextResolve]_vars

\* the message loop: one and two messages, each a string, a number, an
\* object, an array, null, undefined or an Error, in the normal, Compact and
\* Raw variants, with and without an event bus
BodyValues ==
    {TextMsg(<<"A warning!">>), PrimMsg(Num(5)), ObjectMsg(<<<<"a", "1">>>>),
     Msg(ArrayOf(<<"1,2">>), <<<<"0", "1">>, <<"1", "2">>>>, <<>>, NoStack),
     PrimMsg(Null), PrimMsg(Undef), ErrorMsg(<<"failed">>, AnErrorStack)}
BodyMsgs == {<<m>> : m \in BodyValues} \cup {<<m1, m2>> : m1, m2 \in BodyValues}

NextBody ==
    \/ \E level \in {"warn", "debug"}, variant \in {"normal", "Compact", "Raw"}, msg \in BodyMsgs :
            Log(level, variant, msg, AnEnv)
    \/ LoadPlugin(NoArg)

SpecBody == Init /\ [][NextBody]_vars

\* the local parse of a stack: the stacks of up to MaxStackLines lines, each
\* a header, an empty line, a frame of the logger's own file with and without
\* a locator, a frame of another file (two of them) or a frame with no
\* locator
MaxStackLines == 3
StackLineKinds ==
    {<<"Error">>, <<>>,
     <<"    at #getTraceInfo (", "ColorLogger.js", ":278:21)">>,
     <<"    at #output (", "ColorLogger.js:394:30", ")">>,
     <<"    at main (", "main.js:10:5", ")">>,
     <<"    at run (", "lib.js:3:1", ")">>,
     <<"    at <anonymous>">>}
Stacks == UNION {[1..n -> StackLineKinds] : n \in 1..MaxStackLines}

\* ColorLogger.#PARSE_STACK_TRACE(stack) on its own: the info and the trace
\* it returns, observed in `last`
ParseStackTrace(lines) ==
    LET r == PARSE_STACK_TRACE(lines)
    IN /\ last' = [Call("parseStackTrace", Undef, NoArg, "", "", <<>>,
                        [NoOutput EXCEPT !.info = r.info, !.trace = r.trace])
                     EXCEPT !.env = Env(StackOf(lines), "undefined", NoEnv.date)]
       /\ UNCHANGED <<logLevel, heap, held, eventbus, bound>>

NextStack == \E lines \in Stacks : ParseStackTrace(lines)

SpecStack == Init /\ [][NextStack]_vars

(***************************************************************************)
(* The properties                                                          *)
(***************************************************************************)
\* the scale of the specification: off is the highest rank, all the lowest
Scale == <<"all", "trace", "debug", "verbose", "info", "warn", "error", "fatal", "off">>
Rank(name) == CHOOSE i \in 1..Len(Scale) : Scale[i] = name
LevelValues == {Name(t) : t \in LevelNames}
\* the threshold is the level `name`
ThresholdIs(level, name) == level.k = "number" /\ level.n + 1 = Rank(name)
ValidThreshold(level) == \E name \in LevelNames : ThresholdIs(level, name)
\* the severity is enabled at the threshold by the order of the scale
EnabledAt(level, severity) ==
    \E name \in LevelNames : ThresholdIs(level, name) /\ Rank(name) <= Rank(severity)

\* C1: at each of the nine thresholds, a log call of any severity and variant
\* that does not fail in serializing a message returns a string iff
\* rank(threshold) <= rank(severity), and undefined otherwise, without failing;
\* nothing renders at 'off' and everything at 'all'.
C1_GateByRank ==
    (last.op = "log" /\ ValidThreshold(logLevel)) =>
        /\ EnabledAt(logLevel, last.level) =>
                \/ last.out.threw # ""
                \/ last.out.rendered /\ last.out.ret.k = "string"
        /\ ~EnabledAt(logLevel, last.level) =>
                ~last.out.rendered /\ last.out.ret = Undef /\ last.out.threw = ""
        /\ ThresholdIs(logLevel, "off") => last.out.ret = Undef
        /\ (ThresholdIs(logLevel, "all") /\ last.out.threw = "") => last.out.ret.k = "string"

C1_Witness ==
    /\ last.op = "log" /\ ThresholdIs(logLevel, "warn") /\ last.level = "warn"
    /\ last.variant = "Raw" /\ last.out.rendered /\ last.out.ret.k = "string"

\* C2: a log call whose severity is disabled at the threshold writes nothing
\* to the sink, does not call the resolver, serializes no message, and leaves
\* the threshold and the options as they were.
C2_DisabledHasNoEffect ==
    [][(last'.op = "log" /\ ValidThreshold(logLevel) /\ ~EnabledAt(logLevel, last'.level)) =>
            /\ last'.out.writes = <<>>
            /\ last'.out.resolves = 0
            /\ last'.out.serials = 0
            /\ last'.out.threw = ""
            /\ logLevel' = logLevel
            /\ heap' = heap]_vars

C2_Witness ==
    /\ last.op = "log" /\ ThresholdIs(logLevel, "warn") /\ last.level = "info"
    /\ \E i \in 1..Len(last.msg) : last.msg[i].v.k = "error"
    /\ last.out.ret = Undef /\ last.out.serials = 0

\* C3 (as claimed): for every argument that is not one of the nine level
\* names setLogLevel returns false, writes a diagnostic, does not throw and
\* leaves the threshold as it was.
C3_InvalidLevelRejected ==
    [][(last'.op = "setLogLevel" /\ last'.arg \notin LevelValues) =>
            /\ last'.out.ret = False
            /\ last'.out.writes # <<>>
            /\ last'.out.threw = ""
            /\ logLevel' = logLevel]_vars

\* C4: the two tables are mutual inverses over the nine names: from any
\* state setLogLevel(n) returns true and getLogLevel() then returns n.
C4_SetThenGet ==
    [][/\ (last'.op = "setLogLevel" /\ last'.arg \in LevelValues) =>
            /\ last'.out.ret = True
            /\ getLogLevel(logLevel') = last'.arg
            /\ LOG_LEVELS(getLogLevel(logLevel')) = logLevel'
       /\ (last.op = "setLogLevel" /\ last.arg \in LevelValues /\ last'.op = "getLogLevel") =>
            last'.out.ret = last.arg]_vars

C4_Witness ==
    /\ last.op = "getLogLevel" /\ last.out.ret = Name("debug") /\ ThresholdIs(logLevel, "debug")

\* C5: isValidLevel(x) is true exactly when x is a string equal to one of the
\* nine level names, whatever the state of the logger.
C5_ValidLevel ==
    last.op = "isValidLevel" =>
        last.out.ret = Bool(last.arg.k = "string" /\ \E t \in LevelNames : last.arg.s = <<t>>)

C5_Witness ==
    /\ last.op = "isValidLevel" /\ last.arg = ArrayOf(<<"warn">>) /\ last.out.ret = False
    /\ ~ThresholdIs(logLevel, "info")

\* C6 (as claimed): isLevelEnabled never fails and changes nothing; for a
\* level name it returns rank(threshold) <= rank(level), for any other
\* argument false.
C6_IsLevelEnabled ==
    [][last'.op = "isLevelEnabled" =>
            /\ last'.out.threw = ""
            /\ logLevel' = logLevel /\ heap' = heap
            /\ (last'.arg \in LevelValues /\ ValidThreshold(logLevel)) =>
                    last'.out.ret = Bool(EnabledAt(logLevel, last'.arg.s[1]))
            /\ last'.arg \notin LevelValues => last'.out.ret = False]_vars

\* C7: no logging call changes the threshold or an option; the threshold of
\* a logger changes only by a setLogLevel that returns true, which changes no
\* option; the options change only by setOptions or the plugin load that
\* calls it, which do not change the threshold.  (A constructor step starts
\* another logger.)
C7_Frame ==
    [][last'.op # "constructor" =>
            /\ last'.op = "log" => (logLevel' = logLevel /\ heap' = heap)
            /\ logLevel' # logLevel => (last'.op = "setLogLevel" /\ last'.out.ret = True)
            /\ last'.op = "setLogLevel" => heap' = heap
            /\ heap'[1] # heap[1] => last'.op \in {"setOptions", "onPluginLoad"}
            /\ last'.op \in {"setOptions", "onPluginLoad"} => logLevel' = logLevel
            /\ getLogLevel(logLevel') # getLogLevel(logLevel) => last'.op = "setLogLevel"
            /\ JSONRoundTrip(heap'[1]) # JSONRoundTrip(heap[1]) =>
                    last'.op \in {"setOptions", "onPluginLoad"}]_vars

C7_Witness ==
    /\ last.op = "log" /\ last.out.rendered /\ last.variant = "Time"
    /\ ThresholdIs(logLevel, "trace") /\ options["tag"] = Name("T")
    /\ options["consoleEnabled"] = False

\* C10: the constructor and setOptions raise an error for a number, a
\* string, a boolean, a function and null, and change nothing.
NonObjectKinds == {"number", "string", "boolean", "function", "null"}
C10_NonObjectRaises ==
    [][(last'.op \in {"constructor", "setOptions"} /\ last'.opt.v.k \in NonObjectKinds) =>
            /\ last'.out.threw # ""
            /\ logLevel' = logLevel /\ heap' = heap]_vars

C10_Witness ==
    /\ last.op = "constructor" /\ last.opt.v = Null /\ last.out.threw # ""
    /\ options["consoleEnabled"] = False

\* C8: getOptions returns a copy that shares no state with the logger: an
\* assignment to a property of a copy changes neither the options of the
\* logger nor another copy, and two getOptions calls in a row return two
\* objects with equal property values.
C8_IndependentCopies ==
    [][/\ last'.op = "mutateCopy" =>
            /\ heap'[1] = heap[1]
            /\ last'.arg.n # 1
            /\ \A i, j \in 1..Len(held) : i # j => held[i] # held[j]
            /\ \A j \in 1..Len(held) : held[j] # last'.arg.n => heap'[held[j]] = heap[held[j]]
            /\ heap'[last'.arg.n][last'.level] = last'.opt.v
       /\ last'.op = "getOptions" =>
            \A key \in OptionKeys : Get(heap'[last'.out.ret.n], key) = Get(heap[1], key)
       /\ (last.op = "getOptions" /\ last'.op = "getOptions") =>
            /\ last'.out.ret.n # last.out.ret.n
            /\ \A key \in OptionKeys :
                    Get(heap'[last'.out.ret.n], key) = Get(heap'[last.out.ret.n], key)]_vars

C8_Witness ==
    /\ last.op = "mutateCopy" /\ Len(held) = 2
    /\ heap[held[1]]["consoleEnabled"] = False /\ heap[held[2]]["consoleEnabled"] = True
    /\ options["consoleEnabled"] = True /\ options["tag"] = Name("T")
    /\ heap[held[1]]["tag"] = Name("M")

\* C9: setOptions(o) with an object o overwrites each of the five boolean
\* options iff o holds a boolean for it and tag iff o holds a string for it;
\* whatever else o holds is ignored without error.
C9_MergeByField ==
    [][(last'.op = "setOptions" /\ last'.opt.v.k \in {"object", "array"}) =>
            /\ last'.out.threw = ""
            /\ \A key \in BooleanOptions :
                    heap'[1][key] = IF last'.opt.f[key].k = "boolean"
                                    THEN last'.opt.f[key] ELSE heap[1][key]
            /\ heap'[1]["tag"] = IF last'.opt.f["tag"].k = "string"
                                 THEN last'.opt.f["tag"] ELSE heap[1]["tag"]
            /\ heap'[1]["eventPrepend"] = Absent]_vars

C9_Witness ==
    /\ last.op = "setOptions"
    /\ last.opt.f["noColor"] = True /\ last.opt.f["showLevel"] = Name("yes")
    /\ options["noColor"] = True /\ options["showLevel"] = True
    /\ options["tag"] = Str(<<>>)


\* the last call constructed a logger with no options: new ColorLogger() or
\* new ColorLogger({})
DefaultConstructed ==
    /\ last.op = "constructor"
    /\ last.opt \in {NoArg, ObjectArg(EmptyObject)}
    /\ last.out.threw = ""

\* C11: a logger constructed with no options has threshold info,
\* consoleEnabled true, noColor, showDate and showLevel false and no tag, and
\* a logging call made on it next renders iff its severity is fatal, error,
\* warn or info.
C11_Defaults ==
    /\ [](DefaultConstructed =>
            /\ ThresholdIs(logLevel, "info")
            /\ Get(options, "consoleEnabled") = True
            /\ Get(options, "noColor") = False
            /\ Get(options, "showDate") = False
            /\ Get(options, "showLevel") = False
            /\ Get(options, "tag") = Undef)
    /\ [][DefaultConstructed /\ last'.op = "log" =>
            (last'.out.rendered <=> last'.level \in {"fatal", "error", "warn", "info"})]_vars

C11_Witness ==
    /\ last.op = "constructor"
    /\ last.opt = ObjectArg(EmptyObject)
    /\ last.out.threw = ""
    /\ ThresholdIs(logLevel, "info")
    /\ options = DefaultOptions

\* C12: a logger constructed without a showInfo option has showInfo true, and
\* a non-raw call rendered on it next carries the call-site locator.
C12_ShowInfoDefault ==
    /\ [](DefaultConstructed => Get(options, "showInfo") = True)
    /\ [][DefaultConstructed /\ last'.op = "log" /\ last'.out.rendered /\ last'.variant # "Raw" =>
            last'.out.info # <<>>]_vars


\* the last call was a logging call that returned a string
LogRendered == last.op = "log" /\ last.out.rendered
\* the per-call flags of the variants, by the table of ext
RawCall == last.variant = "Raw"
NoColorCall == last.variant \in {"NoColor", "Raw"}
TimeCall == last.variant = "Time"
\* piece occurs in s as a contiguous run; s ends with piece
Occurs(piece, s) ==
    \E i \in 1..(Len(s) - Len(piece) + 1) : SubSeq(s, i, i + Len(piece) - 1) = piece
EndsWith(s, piece) ==
    Len(piece) <= Len(s) /\ SubSeq(s, Len(s) - Len(piece) + 1, Len(s)) = piece
\* what the call-site resolver gives for the call: the answer of the
\* stack-filter collaborator when a bus is attached, else the local parse
Resolved ==
    IF eventbus # "none" /\ last.env.collab = "parsed"
    THEN [info |-> FilteredInfo, trace |-> FilteredTrace]
    ELSE PARSE_STACK_TRACE(last.env.stack.lines)
\* the pieces of a non-raw rendered string, by the options and the flags
ColorPiece ==
    IF Get(options, "noColor") = True \/ NoColorCall THEN <<>> ELSE LEVEL_TO_COLOR(last.level)
TagPiece ==
    IF Get(options, "tag").k = "string" /\ Get(options, "tag").s # <<>>
    THEN <<"[">> \o Get(options, "tag").s \o <<"] ">> ELSE <<>>
LevelPiece ==
    IF Get(options, "showLevel") = True THEN LEVEL_TO_TYPE(last.level) \o <<" ">> ELSE <<>>
TimePiece ==
    IF TimeCall \/ Get(options, "showDate") = True THEN Timestamp(last.env.date) ELSE <<>>
InfoPiece ==
    IF Get(options, "showInfo") = True THEN <<"[">> \o Resolved.info \o <<"] ">> ELSE <<>>
TracePiece ==
    IF last.level = "trace" THEN <<"\n">> \o Resolved.trace \o <<"\n">> ELSE <<>>

\* C13: the string a non-raw rendered call returns is colour, tag, level
\* marker, timestamp, locator, body, trace suffix, reset code, in this order,
\* each optional piece being its full text or empty.
C13_FixedOrder ==
    LogRendered /\ ~RawCall =>
        /\ last.out.body # <<>>
        /\ last.out.ret =
              Str(ColorPiece \o TagPiece \o LevelPiece \o TimePiece \o InfoPiece
                    \o last.out.body \o TracePiece \o ResetCode)

C13_Witness ==
    /\ LogRendered /\ TimeCall /\ last.level = "trace"
    /\ ColorPiece # <<>> /\ TagPiece # <<>> /\ LevelPiece # <<>> /\ TimePiece # <<>>
    /\ InfoPiece # <<>> /\ TracePiece # <<>>

\* the colour escape sequences the engine writes
ColorEscapes == {LEVEL_TO_COLOR(level)[1] : level \in Severities} \cup {ResetCode[1]}
SeverityColorIff ==
    LogRendered =>
        (Occurs(LEVEL_TO_COLOR(last.level), last.out.ret.s)
            <=> (Get(options, "noColor") # True /\ ~NoColorCall))

\* C14: the severity colour is in a rendered string iff neither the noColor
\* option nor the per-call no-colour flag is set, and the string a NoColor
\* variant returns holds no colour escape sequence at all.
C14_NoColorEscape ==
    /\ SeverityColorIff
    /\ LogRendered /\ last.variant = "NoColor" =>
            \A i \in 1..Len(last.out.ret.s) : last.out.ret.s[i] \notin ColorEscapes

\* C15: a Raw call at an enabled level with consoleEnabled true makes one
\* sink write, of the original message values in their order, serializes
\* nothing and does not write the decorated string.
C15_RawSink ==
    LogRendered /\ RawCall /\ Get(options, "consoleEnabled") = True =>
        /\ last.out.writes = <<last.msg>>
        /\ last.out.serials = 0
        /\ \A i \in 1..Len(last.out.writes) : last.out.writes[i] # <<TextMsg(last.out.ret.s)>>

C15_Witness ==
    /\ LogRendered /\ RawCall /\ last.level = "trace"
    /\ Get(options, "consoleEnabled") = True /\ Get(options, "noColor") = False
    /\ Get(options, "showDate") = True /\ Get(options, "showInfo") = True
    /\ Get(options, "showLevel") = True /\ TagPiece # <<>>
    /\ last.out.writes = <<RenderMsgs>>

\* the natural text forms of the messages, concatenated
RECURSIVE ConcatText(_)
ConcatText(msg) == IF msg = <<>> THEN <<>> ELSE msg[1].v.s \o ConcatText(Tail(msg))

\* C16: the string a Raw call at an enabled level returns is the
\* concatenation of the natural text forms of the messages, undecorated.
C16_RawReturn ==
    LogRendered /\ RawCall => last.out.ret = Str(ConcatText(last.msg))

\* C17: a rendered call makes one sink write when consoleEnabled is true and
\* none when it is false, a non-raw call writes the string it returns, and
\* the same call on a logger that differs in consoleEnabled only returns the
\* same string.
C17_ConsoleOnlySink ==
    LogRendered =>
        LET f == VariantFlags(last.variant)
            flipped == [options EXCEPT !["consoleEnabled"] =
                            IF @ = True THEN False ELSE True]
            other == output(logLevel, flipped, eventbus, last.level, f.compact, f.nocolor,
                            f.raw, f.time, last.msg, last.env)
        IN /\ Len(last.out.writes) = IF Get(options, "consoleEnabled") = True THEN 1 ELSE 0
           /\ (~RawCall /\ Get(options, "consoleEnabled") = True =>
                    last.out.writes = << <<TextMsg(last.out.ret.s)>> >>)
           /\ other.ret = last.out.ret
           /\ Len(other.writes) = 1 - Len(last.out.writes)

C17_Witness ==
    /\ LogRendered /\ ~RawCall
    /\ Get(options, "consoleEnabled") = False
    /\ last.out.writes = <<>>
    /\ last.out.ret.k = "string"

\* C18: a rendered string holds a timestamp iff the call is a Time variant
\* or, the call not being raw, showDate is true.
C18_Timestamp ==
    LogRendered =>
        (Occurs(Timestamp(last.env.date), last.out.ret.s)
            <=> (TimeCall \/ (~RawCall /\ Get(options, "showDate") = True)))

C18_Witness ==
    /\ LogRendered /\ TimeCall
    /\ Get(options, "showDate") = False
    /\ Occurs(Timestamp(last.env.date), last.out.ret.s)

\* C19: a rendered call of severity trace ends with the message body, the
\* resolved trace remainder between two newlines and the reset code, in every
\* variant and under every combination of the options; a rendered call of
\* another severity has an empty trace suffix.
C19_TraceSuffix ==
    LogRendered =>
        IF last.level = "trace"
        THEN EndsWith(last.out.ret.s,
                      last.out.body \o <<"\n">> \o Resolved.trace \o <<"\n">> \o ResetCode)
        ELSE /\ last.out.trace = <<>>
             /\ EndsWith(last.out.ret.s, last.out.body \o ResetCode)

C19_Witness ==
    /\ LogRendered /\ last.level = "trace" /\ last.variant = "normal"
    /\ Get(options, "showInfo") = False
    /\ eventbus = "none"
    /\ Occurs(<<"    at main (", "main.js:10:5", ")">>, last.out.ret.s)


\* the lines a locator may come from: not of the logger's own file, and
\* holding a "path:line:column"
Qualifying(lines) ==
    {i \in 1..Len(lines) : ~REGEX_COLOR_LOGGER(lines[i]) /\ MatchLocator(lines[i]) # 0}

\* C20: the local parse returns as locator the path:line:column of the first
\* line that is not of the logger's own file and holds one, never one of a
\* line of its own file; when there is no such line the locator is
\* 'no stack trace' and the trace remainder is empty.
C20_Locator ==
    last.op = "parseStackTrace" =>
        LET lines == last.env.stack.lines
            q == Qualifying(lines)
            first == CHOOSE i \in q : \A j \in q : i <= j
        IN IF q = {}
           THEN last.out.info = <<"no stack trace">> /\ last.out.trace = <<>>
           ELSE /\ last.out.info = <<lines[first][MatchLocator(lines[first])]>>
                /\ last.out.info[1] \notin SelfTokens

C20_Witness ==
    /\ last.op = "parseStackTrace"
    /\ last.env.stack.lines =
          << <<"    at #output (", "ColorLogger.js:394:30", ")">>, <<"Error">>,
             <<"    at main (", "main.js:10:5", ")">> >>
    /\ last.out.info = <<"main.js:10:5">>


\* the lines of a stack from the line `from` on that are not of the logger's
\* own file, in their order
NotSelf(line) == ~REGEX_COLOR_LOGGER(line)
NonSelfFrom(lines, from) == SelectSeq(SubSeq(lines, from, Len(lines)), NotSelf)
FirstQualifying(lines) ==
    CHOOSE i \in Qualifying(lines) : \A j \in Qualifying(lines) : i <= j

\* C21: the trace remainder of the local parse is the lines after the line
\* that supplied the locator that are not of the logger's own file, in their
\* order, joined by newlines; the locator's line is not part of it.
C21_RemainderAfterLocator ==
    last.op = "parseStackTrace" /\ Qualifying(last.env.stack.lines) # {} =>
        LET lines == last.env.stack.lines
        IN last.out.trace = Join(NonSelfFrom(lines, FirstQualifying(lines) + 1), <<"\n">>)

\* C21, amended: the trace remainder of the local parse is the line that
\* supplied the locator followed by the lines after it that are not of the
\* logger's own file, in their order, joined by newlines; it is empty when no
\* line supplied a locator.
C21_RemainderFromLocator ==
    last.op = "parseStackTrace" =>
        LET lines == last.env.stack.lines
        IN IF Qualifying(lines) = {} THEN last.out.trace = <<>>
           ELSE /\ last.out.trace = Join(NonSelfFrom(lines, FirstQualifying(lines)), <<"\n">>)
                /\ SubSeq(last.out.trace, 1, Len(lines[FirstQualifying(lines)]))
                        = lines[FirstQualifying(lines)]

C21_Witness ==
    /\ last.op = "parseStackTrace"
    /\ last.env.stack.lines =
          << <<"    at main (", "main.js:10:5", ")">>,
             <<"    at #output (", "ColorLogger.js:394:30", ")">>,
             <<"    at run (", "lib.js:3:1", ")">> >>
    /\ last.out.trace =
          <<"    at main (", "main.js:10:5", ")", "\n", "    at run (", "lib.js:3:1", ")">>


\* the call reads the call site: the locator (showInfo, not raw) or the trace
\* suffix (severity trace)
NeedsLocator == Get(options, "showInfo") = True /\ ~RawCall
NeedsSite == NeedsLocator \/ last.level = "trace"
LocalParse == PARSE_STACK_TRACE(last.env.stack.lines)

\* C22: with an event bus attached and a collaborator that returns a result,
\* the locator and the trace remainder of the call are the collaborator's;
\* with no bus, or a collaborator that returns nothing, throws, or whose
\* result cannot be read, they are those of the local parse; the log call
\* does not raise.
C22_Collaborator ==
    last.op = "log" =>
        /\ last.out.threw = ""
        /\ last.out.rendered /\ NeedsSite =>
              LET r == IF eventbus # "none" /\ last.env.collab = "parsed"
                       THEN [info |-> FilteredInfo, trace |-> FilteredTrace]
                       ELSE LocalParse
              IN /\ NeedsLocator => Occurs(<<"[">> \o r.info \o <<"] ">>, last.out.ret.s)
                 /\ last.level = "trace" =>
                        EndsWith(last.out.ret.s, <<"\n">> \o r.trace \o <<"\n">> \o ResetCode)

C22_Witness ==
    /\ LogRendered /\ NeedsLocator /\ last.level = "trace"
    /\ eventbus # "none" /\ last.env.collab = "throws"
    /\ Occurs(<<"[">> \o LocalParse.info \o <<"] ">>, last.out.ret.s)
    /\ LocalParse.info # FilteredInfo

\* the Errors among the messages
RECURSIVE Errors(_)
Errors(msg) ==
    IF msg = <<>> THEN 0
    ELSE (IF InstanceOfError(msg[1]) THEN 1 ELSE 0) + Errors(Tail(msg))

\* C23: within one log call the resolver is invoked at most once, and every
\* call that reads the call site resolves it afresh.
C23_ResolveOnce ==
    LogRendered =>
        /\ last.out.resolves <= 1
        /\ NeedsSite => last.out.resolves = 1

\* C23, amended: within one log call the resolver is invoked at most once for
\* the call site (the result for the locator is reused for the trace suffix)
\* and once for each Error among the messages of a non-raw call; every call
\* that reads the call site resolves it afresh, from the stack of that call.
C23_ResolveSiteOnce ==
    LogRendered =>
        /\ last.out.siteResolves = IF NeedsSite THEN 1 ELSE 0
        /\ last.out.resolves =
              last.out.siteResolves + IF RawCall THEN 0 ELSE Errors(last.msg)
        /\ NeedsLocator => last.out.info = <<"[">> \o Resolved.info \o <<"] ">>
        /\ last.level = "trace" => last.out.trace = <<"\n">> \o Resolved.trace \o <<"\n">>

C23_Witness ==
    /\ LogRendered /\ NeedsLocator /\ last.level = "trace"
    /\ last.out.siteResolves = 1
    /\ last.out.resolves = 3
    /\ last.env.stack = OtherStack


\* the binding table of the specification: the identifier after the prefix
\* and the operation it names
ExpectedBindings ==
    {Binding(<<"log:", level>>, Handler("log", level, "normal")) : level \in Severities}
        \cup {Binding(<<"log:", level, ":compact">>, Handler("log", level, "Compact")) : level \in Severities}
        \cup {Binding(<<"log:", level, ":nocolor">>, Handler("log", level, "NoColor")) : level \in Severities}
        \cup {Binding(<<"log:", level, ":raw">>, Handler("log", level, "Raw")) : level \in Severities}
        \cup {Binding(<<"log:", level, ":time">>, Handler("log", level, "Time")) : level \in Severities}
        \cup {Binding(<<"log:level:get">>, Handler("getLogLevel", "", "")),
              Binding(<<"log:level:set">>, Handler("setLogLevel", "", "")),
              Binding(<<"log:level:is:valid">>, Handler("isValidLevel", "", "")),
              Binding(<<"log:level:is:enabled">>, Handler("isLevelEnabled", "", "")),
              Binding(<<"log:options:get">>, Handler("getOptions", "", "")),
              Binding(<<"log:options:set">>, Handler("setOptions", "", ""))}

\* C24: after the plugin load every identifier of the binding table, with the
\* prefix prepended, is bound to its operation, and triggering it has the
\* effect and the result of calling the operation.
C24_Bindings ==
    /\ [](\A prefix \in bound, e \in ExpectedBindings :
            [id |-> prefix \o e.suffix, handler |-> e.handler] \in Registrations)
    /\ [][\A prefix \in bound, e \in ExpectedBindings :
            last'.id = prefix \o e.suffix =>
                /\ last'.op = e.handler.op
                /\ last'.out = Dispatch(e.handler, last'.opt, last'.env).out
                /\ logLevel' = Dispatch(e.handler, last'.opt, last'.env).logLevel
                /\ heap' = Dispatch(e.handler, last'.opt, last'.env).heap]_vars

\* C25: logger.is.<severity> is true iff the severity is enabled at the
\* threshold: it equals isLevelEnabled('<severity>').
C25_IsAccessor ==
    last.op = "is" =>
        /\ last.out.threw = ""
        /\ last.out.ret = isLevelEnabled(logLevel, Name(last.level)).ret


\* the body part of a message value: an Error gives its message, a newline
\* and the trace remainder resolved from its own stack; another object its
\* serialized form, indented unless the call is Compact; any other value its
\* natural text form
ErrorTrace(m) ==
    IF ~m.stack.isString THEN <<>>
    ELSE IF eventbus # "none" /\ last.env.collab = "parsed" THEN FilteredTrace
    ELSE PARSE_STACK_TRACE(m.stack.lines).trace
BodyPart(m) ==
    IF InstanceOfError(m) THEN m.message \o <<"\n">> \o ErrorTrace(m)
    ELSE IF TypeOfMsg(m) = "object" THEN JSONStringify(m, last.variant # "Compact")
    ELSE m.v.s
ExpectedBody(msg) == Join([i \in 1..Len(msg) |-> BodyPart(msg[i])], <<"\n">>)

\* C26: in a non-raw rendered call the body is the body parts of the message
\* values, in argument order, joined by newlines.
C26_Body ==
    LogRendered /\ ~RawCall =>
        /\ last.out.body = ExpectedBody(last.msg)
        /\ Occurs(ExpectedBody(last.msg) \o ResetCode, last.out.ret.s)


\* C27: in a non-raw rendered call the tag prefix is there iff the tag option
\* is a non-empty string, the level marker iff showLevel is true and the
\* bracketed locator iff showInfo is true, whatever the other options, the
\* colour and the time flags are.
C27_Decorations ==
    LogRendered /\ ~RawCall =>
        LET tagOption == Get(options, "tag")
            hasTag == tagOption.k = "string" /\ tagOption.s # <<>>
            marker == LEVEL_TO_TYPE(last.level) \o <<" ">>
            locator == <<"[">> \o Resolved.info \o <<"] ">>
        IN /\ last.out.tag # <<>> <=> hasTag
           /\ hasTag => /\ last.out.tag = <<"[">> \o tagOption.s \o <<"] ">>
                        /\ Occurs(last.out.tag, last.out.ret.s)
           /\ Occurs(marker, last.out.ret.s) <=> Get(options, "showLevel") = True
           /\ Occurs(locator, last.out.ret.s) <=> Get(options, "showInfo") = True

C27_Witness ==
    /\ LogRendered /\ last.variant = "NoColor" /\ last.level = "warn"
    /\ Get(options, "tag") = Str(<<>>)
    /\ Get(options, "showLevel") = True /\ Get(options, "showInfo") = False
    /\ Get(options, "showDate") = True
    /\ last.out.tag = <<>>
    /\ Occurs(<<"[W]", " ">>, last.out.ret.s)


\* C28: in every state the threshold is one of the ranks 0..8, so that
\* getLogLevel() returns one of the nine level names, each of the five flags
\* is a boolean and tag is unset or a string.
OptionsWellFormed ==
    /\ \A key \in BooleanOptions : options[key].k = "boolean"
    /\ options["tag"].k \in {"undefined", "absent", "string"}
C28_WellFormed ==
    /\ logLevel.k = "number" /\ logLevel.n \in 0..8
    /\ getLogLevel(logLevel) \in LevelValues
    /\ OptionsWellFormed

C30_RoundTripIdempotent ==
    [][/\ last'.op = "setOptions(getOptions())" =>
            (last'.out.threw = "" /\ heap'[1] = heap[1])
       /\ (last'.op = "setOptions" /\ last.op = "setOptions" /\ last'.opt = last.opt) =>
            (heap'[1] = heap[1] /\ last'.out = last.out)]_vars

C30_Witness ==
    /\ last.op = "setOptions(getOptions())"
    /\ options["tag"] = Name("T") /\ options["showInfo"] = True
    /\ options["consoleEnabled"] = False

=============================================================================
